---- MODULE Spec2Model ----
(***************************************************************************)
(* Model of model-manager/load.go: the readiness gate that probes the      *)
(* backend, lists its models, pulls the missing ones and retries until a   *)
(* fixed deadline.  Time is counted in seconds.  The backend (its answers, *)
(* its inventory, the pull streams it sends) is the environment and is     *)
(* nondeterministic.                                                       *)
(***************************************************************************)
EXTENDS Integers, Sequences, FiniteSets, TLC

VARIABLES
    required,     \* []string parsed from REQUIRED_MODELS (waitUntilReady's argument)
    deadline,     \* waitUntilReady: deadline := time.Now().Add(startupLimit)
    now,          \* the wall clock, time.Now()
    last,         \* waitUntilReady: var last error
    err,          \* the error returned by the latest pingOllama / ensureAll call
    pc,           \* where the control flow stands
    cancelled,    \* ctx.Done() is closed (SIGINT/SIGTERM received)
    installed,    \* the backend's inventory (environment)
    have,         \* ensureAll: the set returned by listModels in this cycle
    missing,      \* ensureAll: var missing []string
    idx,          \* ensureAll: position of the range loop over missing
    stream,       \* pullModel: the records of the response body
    pos,          \* pullModel: number of records the decoder has consumed
    pullErr,      \* the error returned by the latest pullModel call
    iter,         \* history: deadline checks passed (iterations begun)
    probeFails,   \* history: failed probes
    ensureFails,  \* history: failed ensureAll calls
    checkedAt,    \* history: the clock at the latest deadline check
    cyclePulls,   \* history: models for which a pull was issued in this cycle
    okBefore,     \* history: models whose pull succeeded in an earlier cycle
    okNow,        \* history: models whose pull succeeded in this cycle
    removed,      \* history: models removed from the backend by someone else
    lastFailed,   \* history: the stage of the latest failed attempt
    queries,      \* history: inventory queries (listModels calls) issued
    answer,       \* history: the backend's answer to the latest call
    run           \* history: which consecutive ensureAll run this is

vars == <<required, deadline, now, last, err, pc, cancelled, installed, have,
          missing, idx, stream, pos, pullErr, iter, probeFails, ensureFails,
          checkedAt, cyclePulls, okBefore, okNow, removed, lastFailed, queries,
          answer, run>>

----------------------------------------------------------------------------
(* Bounds of the model *)

MaxRequired == 2
MaxLimit == 4
MaxCallDur == 1
MaxEvents == 1
MaxStreamLen == 3
MaxExternal == 1

(* Program constants *)

Backoff == 2
BodyLimit == 8192

Models == {"a", "b"}
Nil == <<>>

RECURSIVE SeqsUpTo(_, _)
SeqsUpTo(S, n) ==
    IF n = 0 THEN {<<>>}
    ELSE SeqsUpTo(S, n - 1) \cup [1..n -> S]

Range(s) == {s[i] : i \in 1..Len(s)}

RequiredLists == SeqsUpTo(Models, MaxRequired) \ {<<>>}
StartupLimits == (-1)..MaxLimit
Durations == 0..MaxCallDur

----------------------------------------------------------------------------
(* The backend's answers *)

HttpStatuses == {200, 304, 500}

\* What httpClient(timeout).Do(req) yields: a transport error or a response.
Responses ==
    {[neterr |-> e, status |-> 0] : e \in {"connection refused"}}
      \cup {[neterr |-> "", status |-> s] : s \in HttpStatuses}

CanceledResponse == [neterr |-> "context canceled", status |-> 0]

\* With the context cancelled every call fails with the context's error.
Answers == IF cancelled THEN {CanceledResponse} ELSE Responses

TagsBodies == {"inventory", "malformed"}

\* The byte length of the body of a rejected pull request.
BodyLens == {0, BodyLimit + 1}

\* An answer as the history keeps it: the response, the kind of its body
\* and the body's length in bytes.
Answer(resp, body, len) ==
    [neterr |-> resp.neterr, status |-> resp.status, body |-> body, len |-> len]

NoAnswer == [neterr |-> "", status |-> 0, body |-> "", len |-> 0]

\* The records of a pull stream: a JSON object with status and error, a
\* record that is not valid JSON ("syntax"), or a broken read ("abort").
PullStatuses == {"", "pulling", "success"}
PullErrors == {"", "boom"}
pullEvent ==
    {[bad |-> "", Status |-> s, Error |-> e] : s \in PullStatuses, e \in PullErrors}
      \cup {[bad |-> b, Status |-> "", Error |-> ""] : b \in {"syntax", "abort"}}

Streams(n) == SeqsUpTo(pullEvent, n)

----------------------------------------------------------------------------
(* The functions of load.go, as functions of the backend's answer.  An     *)
(* error is the sequence of the parts of its message; Nil is no error.     *)

\* Mutant: the probe accepts only a status below 300.
pingOllamaStrict(resp) ==
    IF resp.neterr # "" THEN <<resp.neterr>>
    ELSE IF resp.status >= 300
         THEN <<"ollama /api/tags status", ToString(resp.status)>>
         ELSE Nil

\* pingOllama: only a transport error or a status >= 400 fails the probe.
pingOllama(resp) ==
    IF resp.neterr # "" THEN <<resp.neterr>>
    ELSE IF resp.status >= 400
         THEN <<"ollama /api/tags status", ToString(resp.status)>>
         ELSE Nil

\* listModels: the error it returns (the set it returns is the inventory).
listModels(resp, body) ==
    IF resp.neterr # "" THEN <<resp.neterr>>
    ELSE IF resp.status >= 400 THEN <<"status", ToString(resp.status)>>
    ELSE IF body # "inventory" THEN <<"decode tags">>
    ELSE Nil

\* Mutant: the set of an earlier query is kept instead of the fresh one.
InventoryCached(inv, prev) == IF prev # {} THEN prev ELSE inv

\* listModels: the set built from the names of the response, given the
\* backend's inventory inv; prev is the set of the previous call, discarded.
Inventory(inv, prev) == inv

\* Keeps the first occurrence of every element of a sequence.
RECURSIVE Dedup(_)
Dedup(s) ==
    IF s = <<>> THEN <<>>
    ELSE LET front == Dedup(SubSeq(s, 1, Len(s) - 1))
             x == s[Len(s)]
         IN IF x \in Range(front) THEN front ELSE Append(front, x)

\* Mutant: the inventory is ignored and every required model counts as missing.
MissingAll(req, inv) == req

\* Mutant: a model listed twice is put on the missing list once.
MissingOnce(req, inv) == Dedup(SelectSeq(req, LAMBDA need : need \notin inv))

\* ensureAll: the required models that are not in the inventory, in order.
Missing(req, inv) == SelectSeq(req, LAMBDA need : need \notin inv)

\* Mutant: the whole body of a rejected request is read.
LimitReadAll(len) == len

\* io.LimitReader(resp.Body, 8192): the bytes read of a body of len bytes.
LimitRead(len) == IF len < BodyLimit THEN len ELSE BodyLimit

\* pullModel: the check of the initial response, before any record is read.
\* The error of a rejected request carries the status and the bytes of the
\* body that were read (here: how many).
pullRejected(m, resp, len) ==
    IF resp.neterr # "" THEN <<resp.neterr>>
    ELSE IF resp.status \div 100 # 2
         THEN <<"pull", m, "failed: status", ToString(resp.status),
                ToString(LimitRead(len))>>
         ELSE Nil

\* Mutant: the deadline itself already counts as exceeded.
ExpiredAtDeadline(t, dl) == t >= dl

\* waitUntilReady: time.Now().After(deadline).
Expired(t, dl) == t > dl

ProbeFailure(e) == <<"ollama not responding">> \o e
EnsureFailure(e) == <<"ensure models">> \o e
StartupTimeout == <<"startup timeout">>

Terminal == pc \in {"ready", "failed"}

\* The process has exited (gate mode: 0 after the signal, 1 after log.Fatalf).
Exited == pc \in {"exit0", "exit1"}

----------------------------------------------------------------------------
(* State after construction *)

TypeOK ==
    /\ required \in RequiredLists
    /\ deadline \in StartupLimits
    /\ now \in Nat
    /\ cancelled \in BOOLEAN
    /\ installed \subseteq Models \cup {"A"}
    /\ have \subseteq Models \cup {"A"}
    /\ pos \in 0..Len(stream)

\* waitUntilReady is entered at time 0 with deadline := now + startupLimit.
Init ==
    /\ required \in RequiredLists
    /\ \E startupLimit \in StartupLimits : deadline = 0 + startupLimit
    /\ now = 0
    /\ last = Nil
    /\ err = Nil
    /\ pc = "check"
    /\ cancelled = FALSE
    /\ installed \in SUBSET Models
    /\ have = {}
    /\ missing = <<>>
    /\ idx = 0
    /\ stream = <<>>
    /\ pos = 0
    /\ pullErr = Nil
    /\ iter = 0
    /\ probeFails = 0
    /\ ensureFails = 0
    /\ checkedAt = 0
    /\ cyclePulls = <<>>
    /\ okBefore = {}
    /\ okNow = {}
    /\ removed = {}
    /\ lastFailed = "none"
    /\ queries = 0
    /\ answer = NoAnswer
    /\ run = 0

loopVars == <<deadline, last, iter, probeFails, ensureFails, checkedAt, lastFailed>>
ensureVars == <<have, missing, idx, cyclePulls, okBefore, okNow, run>>
pullVars == <<stream, pos, pullErr>>
envVars == <<required, cancelled, removed>>
callVars == <<queries, answer>>

----------------------------------------------------------------------------
(* waitUntilReady *)

\* load.go 172-177: the deadline check at the top of the loop.
CheckDeadline ==
    /\ pc = "check"
    /\ checkedAt' = now
    /\ IF Expired(now, deadline)
       THEN /\ last' = (IF last = Nil THEN StartupTimeout ELSE last)
            /\ pc' = "failed"
            /\ iter' = iter
       ELSE /\ last' = last
            /\ pc' = "ping"
            /\ iter' = iter + 1
    /\ UNCHANGED <<deadline, probeFails, ensureFails, lastFailed, now, err, installed>>
    /\ UNCHANGED <<ensureVars, pullVars, envVars, callVars>>

\* load.go 178 -> 79-90: one liveness probe.
Ping ==
    /\ pc = "ping"
    /\ \E resp \in Answers, body \in TagsBodies, d \in Durations :
          /\ err' = pingOllama(resp)
          /\ now' = now + d
          /\ answer' = Answer(resp, body, 0)
    /\ pc' = "pinged"
    /\ UNCHANGED <<loopVars, ensureVars, pullVars, envVars, installed, queries>>

\* Mutant: a failed probe is retried at once, without the pause.
AfterPingNoBackoff ==
    /\ pc = "pinged"
    /\ IF err # Nil
       THEN /\ last' = ProbeFailure(err)
            /\ now' = now
            /\ probeFails' = probeFails + 1
            /\ lastFailed' = "probe"
            /\ pc' = "check"
            /\ UNCHANGED <<cyclePulls, okBefore, okNow, run>>
       ELSE /\ pc' = "list"
            /\ cyclePulls' = <<>>
            /\ okBefore' = okBefore \cup okNow
            /\ okNow' = {}
            /\ run' = run + 1
            /\ UNCHANGED <<last, now, probeFails, lastFailed>>
    /\ answer' = NoAnswer
    /\ UNCHANGED <<deadline, iter, ensureFails, checkedAt, err, installed>>
    /\ UNCHANGED <<have, missing, idx, pullVars, envVars, queries>>

\* load.go 178-182: record a failed probe and pause, or go on to ensureAll.
AfterPing ==
    /\ pc = "pinged"
    /\ IF err # Nil
       THEN /\ last' = ProbeFailure(err)
            /\ now' = now + Backoff
            /\ probeFails' = probeFails + 1
            /\ lastFailed' = "probe"
            /\ pc' = "check"
            /\ UNCHANGED <<cyclePulls, okBefore, okNow, run>>
       ELSE /\ pc' = "list"
            /\ cyclePulls' = <<>>
            /\ okBefore' = okBefore \cup okNow
            /\ okNow' = {}
            /\ run' = run + 1
            /\ UNCHANGED <<last, now, probeFails, lastFailed>>
    /\ answer' = NoAnswer
    /\ UNCHANGED <<deadline, iter, ensureFails, checkedAt, err, installed>>
    /\ UNCHANGED <<have, missing, idx, pullVars, envVars, queries>>

\* Mutant: an ensure failure is recorded only when no error was recorded yet.
AfterEnsureKeepsFirst ==
    /\ pc = "ensured"
    /\ IF err # Nil
       THEN /\ last' = (IF last = Nil THEN EnsureFailure(err) ELSE last)
            /\ now' = now + Backoff
            /\ ensureFails' = ensureFails + 1
            /\ lastFailed' = "ensure"
            /\ pc' = "check"
       ELSE /\ pc' = "ready"
            /\ UNCHANGED <<last, now, ensureFails, lastFailed>>
    /\ answer' = NoAnswer
    /\ UNCHANGED <<deadline, iter, probeFails, checkedAt, err, installed>>
    /\ UNCHANGED <<ensureVars, pullVars, envVars, queries>>

\* Mutant: the deadline is checked once more before ready is returned.
AfterEnsureChecksDeadline ==
    /\ pc = "ensured"
    /\ IF err # Nil
       THEN /\ last' = EnsureFailure(err)
            /\ now' = now + Backoff
            /\ ensureFails' = ensureFails + 1
            /\ lastFailed' = "ensure"
            /\ pc' = "check"
       ELSE /\ pc' = (IF Expired(now, deadline) THEN "failed" ELSE "ready")
            /\ last' = (IF Expired(now, deadline) /\ last = Nil
                        THEN StartupTimeout ELSE last)
            /\ UNCHANGED <<now, ensureFails, lastFailed>>
    /\ answer' = NoAnswer
    /\ UNCHANGED <<deadline, iter, probeFails, checkedAt, err, installed>>
    /\ UNCHANGED <<ensureVars, pullVars, envVars, queries>>

\* Mutant: after a failed ensureAll and the pause, ensureAll is called again
\* without a deadline check or a probe.
AfterEnsureRetriesEnsure ==
    /\ pc = "ensured"
    /\ IF err # Nil
       THEN /\ last' = EnsureFailure(err)
            /\ now' = now + Backoff
            /\ ensureFails' = ensureFails + 1
            /\ lastFailed' = "ensure"
            /\ pc' = "list"
       ELSE /\ pc' = "ready"
            /\ UNCHANGED <<last, now, ensureFails, lastFailed>>
    /\ answer' = NoAnswer
    /\ UNCHANGED <<deadline, iter, probeFails, checkedAt, err, installed>>
    /\ UNCHANGED <<ensureVars, pullVars, envVars, queries>>

\* load.go 183-188: record a failed ensureAll and pause, or return ready.
AfterEnsure ==
    /\ pc = "ensured"
    /\ IF err # Nil
       THEN /\ last' = EnsureFailure(err)
            /\ now' = now + Backoff
            /\ ensureFails' = ensureFails + 1
            /\ lastFailed' = "ensure"
            /\ pc' = "check"
       ELSE /\ pc' = "ready"
            /\ UNCHANGED <<last, now, ensureFails, lastFailed>>
    /\ answer' = NoAnswer
    /\ UNCHANGED <<deadline, iter, probeFails, checkedAt, err, installed>>
    /\ UNCHANGED <<ensureVars, pullVars, envVars, queries>>

----------------------------------------------------------------------------
(* main *)

mainVars == <<loopVars, ensureVars, pullVars, envVars, callVars, now, err, installed>>

\* Mutant: main returns right after logging, without waiting for the signal.
MainReadyNoWait ==
    /\ pc = "ready"
    /\ pc' = "exit0"
    /\ UNCHANGED mainVars

\* load.go 226-228: after ready, main blocks on <-ctx.Done() and returns.
MainReady ==
    /\ pc = "ready"
    /\ cancelled
    /\ pc' = "exit0"
    /\ UNCHANGED mainVars

\* load.go 223-225: after failed, log.Fatalf exits with status 1.
MainFatal ==
    /\ pc = "failed"
    /\ pc' = "exit1"
    /\ UNCHANGED mainVars

----------------------------------------------------------------------------
(* ensureAll *)

\* load.go 149-158 -> 92-111: query the inventory and compute missing.
ListModels ==
    /\ pc = "list"
    /\ \E resp \in Answers, body \in TagsBodies, d \in Durations :
          LET e == listModels(resp, body) IN
          /\ now' = now + d
          /\ answer' = Answer(resp, body, 0)
          /\ IF e # Nil
             THEN /\ err' = e
                  /\ pc' = "ensured"
                  /\ UNCHANGED <<have, missing, idx>>
             ELSE /\ have' = Inventory(installed, have)
                  /\ missing' = Missing(required, have')
                  /\ idx' = 1
                  /\ err' = Nil
                  /\ pc' = (IF missing' = <<>> THEN "ensured" ELSE "pull")
    /\ queries' = queries + 1
    /\ UNCHANGED <<loopVars, pullVars, envVars, installed>>
    /\ UNCHANGED <<cyclePulls, okBefore, okNow, run>>

\* Mutant: the result of pullModel is dropped; ensureAll returns nil after
\* the last pull.
AfterPullIgnoresError ==
    /\ pc = "pulled"
    /\ IF idx = Len(missing)
       THEN /\ err' = Nil
            /\ pc' = "ensured"
            /\ idx' = idx
       ELSE /\ err' = err
            /\ pc' = "pull"
            /\ idx' = idx + 1
    /\ stream' = <<>>
    /\ pos' = 0
    /\ answer' = NoAnswer
    /\ UNCHANGED <<loopVars, envVars, installed, now, pullErr, queries>>
    /\ UNCHANGED <<have, missing, cyclePulls, okBefore, okNow, run>>

\* Mutant: a failed pull does not end the range loop; the models listed
\* after it are still pulled.
AfterPullContinues ==
    /\ pc = "pulled"
    /\ IF idx = Len(missing)
       THEN /\ err' = pullErr
            /\ pc' = "ensured"
            /\ idx' = idx
       ELSE /\ err' = err
            /\ pc' = "pull"
            /\ idx' = idx + 1
    /\ stream' = <<>>
    /\ pos' = 0
    /\ answer' = NoAnswer
    /\ UNCHANGED <<loopVars, envVars, installed, now, pullErr, queries>>
    /\ UNCHANGED <<have, missing, cyclePulls, okBefore, okNow, run>>

\* load.go 159-165: the range loop over missing, after one pullModel call.
AfterPull ==
    /\ pc = "pulled"
    /\ IF pullErr # Nil
       THEN /\ err' = pullErr
            /\ pc' = "ensured"
            /\ idx' = idx
       ELSE IF idx = Len(missing)
       THEN /\ err' = Nil
            /\ pc' = "ensured"
            /\ idx' = idx
       ELSE /\ err' = err
            /\ pc' = "pull"
            /\ idx' = idx + 1
    /\ stream' = <<>>
    /\ pos' = 0
    /\ answer' = NoAnswer
    /\ UNCHANGED <<loopVars, envVars, installed, now, pullErr, queries>>
    /\ UNCHANGED <<have, missing, cyclePulls, okBefore, okNow, run>>

----------------------------------------------------------------------------
(* pullModel *)

\* load.go 114-126: POST /api/pull and the check of the initial response.
PullStart ==
    /\ pc = "pull"
    /\ cyclePulls' = Append(cyclePulls, missing[idx])
    /\ \E resp \in Answers, d \in Durations, len \in BodyLens :
          LET e == pullRejected(missing[idx], resp, len) IN
          /\ now' = now + d
          /\ answer' = Answer(resp, "stream", IF e # Nil THEN len ELSE 0)
          /\ pullErr' = e
          /\ pc' = (IF e # Nil THEN "pulled" ELSE "decode")
          /\ stream' \in (IF resp.neterr # "" THEN {<<>>} ELSE Streams(MaxEvents))
    /\ pos' = 0
    /\ UNCHANGED <<loopVars, envVars, installed, err, queries>>
    /\ UNCHANGED <<have, missing, idx, okBefore, okNow, run>>

\* Mutant: a success record does not end the call; the loop reads on.
pullModelStepReadsOn(m, s, p, readFails) ==
    IF readFails
    THEN [err |-> <<"pull", m, "decode", "context canceled">>, ret |-> TRUE, pos |-> p]
    ELSE IF p = Len(s)
    THEN [err |-> <<"pull", m, "stream ended without success">>, ret |-> TRUE, pos |-> p]
    ELSE IF s[p + 1].bad # ""
    THEN [err |-> <<"pull", m, "decode", s[p + 1].bad>>, ret |-> TRUE, pos |-> p + 1]
    ELSE IF s[p + 1].Error # ""
    THEN [err |-> <<"pull", m, s[p + 1].Error>>, ret |-> TRUE, pos |-> p + 1]
    ELSE [err |-> Nil, ret |-> FALSE, pos |-> p + 1]

\* Mutant: the end of the stream counts as success.
pullModelStepEOFIsNil(m, s, p, readFails) ==
    IF readFails
    THEN [err |-> <<"pull", m, "decode", "context canceled">>, ret |-> TRUE, pos |-> p]
    ELSE IF p = Len(s)
    THEN [err |-> Nil, ret |-> TRUE, pos |-> p]
    ELSE IF s[p + 1].bad # ""
    THEN [err |-> <<"pull", m, "decode", s[p + 1].bad>>, ret |-> TRUE, pos |-> p + 1]
    ELSE IF s[p + 1].Error # ""
    THEN [err |-> <<"pull", m, s[p + 1].Error>>, ret |-> TRUE, pos |-> p + 1]
    ELSE IF s[p + 1].Status = "success"
    THEN [err |-> Nil, ret |-> TRUE, pos |-> p + 1]
    ELSE [err |-> Nil, ret |-> FALSE, pos |-> p + 1]

\* Mutant: a record that cannot be decoded is skipped.
pullModelStepSkipsBad(m, s, p, readFails) ==
    IF readFails
    THEN [err |-> <<"pull", m, "decode", "context canceled">>, ret |-> TRUE, pos |-> p]
    ELSE IF p = Len(s)
    THEN [err |-> <<"pull", m, "stream ended without success">>, ret |-> TRUE, pos |-> p]
    ELSE IF s[p + 1].bad # ""
    THEN [err |-> Nil, ret |-> FALSE, pos |-> p + 1]
    ELSE IF s[p + 1].Error # ""
    THEN [err |-> <<"pull", m, s[p + 1].Error>>, ret |-> TRUE, pos |-> p + 1]
    ELSE IF s[p + 1].Status = "success"
    THEN [err |-> Nil, ret |-> TRUE, pos |-> p + 1]
    ELSE [err |-> Nil, ret |-> FALSE, pos |-> p + 1]

\* Mutant: the status is looked at before the error message.
pullModelStepStatusFirst(m, s, p, readFails) ==
    IF readFails
    THEN [err |-> <<"pull", m, "decode", "context canceled">>, ret |-> TRUE, pos |-> p]
    ELSE IF p = Len(s)
    THEN [err |-> <<"pull", m, "stream ended without success">>, ret |-> TRUE, pos |-> p]
    ELSE IF s[p + 1].bad # ""
    THEN [err |-> <<"pull", m, "decode", s[p + 1].bad>>, ret |-> TRUE, pos |-> p + 1]
    ELSE IF s[p + 1].Status = "success"
    THEN [err |-> Nil, ret |-> TRUE, pos |-> p + 1]
    ELSE IF s[p + 1].Error # ""
    THEN [err |-> <<"pull", m, s[p + 1].Error>>, ret |-> TRUE, pos |-> p + 1]
    ELSE [err |-> Nil, ret |-> FALSE, pos |-> p + 1]

\* load.go 127-145: one iteration of the decode loop on stream s with p
\* records consumed: the error, whether pullModel returns, and the records
\* consumed afterwards.  readFails: the read of the body fails because the
\* context was cancelled.
pullModelStep(m, s, p, readFails) ==
    IF readFails
    THEN [err |-> <<"pull", m, "decode", "context canceled">>, ret |-> TRUE, pos |-> p]
    ELSE IF p = Len(s)
    THEN [err |-> <<"pull", m, "stream ended without success">>, ret |-> TRUE, pos |-> p]
    ELSE IF s[p + 1].bad # ""
    THEN [err |-> <<"pull", m, "decode", s[p + 1].bad>>, ret |-> TRUE, pos |-> p + 1]
    ELSE IF s[p + 1].Error # ""
    THEN [err |-> <<"pull", m, s[p + 1].Error>>, ret |-> TRUE, pos |-> p + 1]
    ELSE IF s[p + 1].Status = "success"
    THEN [err |-> Nil, ret |-> TRUE, pos |-> p + 1]
    ELSE [err |-> Nil, ret |-> FALSE, pos |-> p + 1]

\* load.go 127-145: the decode loop, one record at a time.  The backend has
\* installed the model when pullModel returns success.
PullDecode ==
    /\ pc = "decode"
    /\ \E readFails \in (IF cancelled THEN BOOLEAN ELSE {FALSE}) :
          LET m == missing[idx]
              r == pullModelStep(m, stream, pos, readFails)
              done == r.ret /\ r.err = Nil
          IN
          /\ pullErr' = r.err
          /\ pos' = r.pos
          /\ pc' = (IF r.ret THEN "pulled" ELSE "decode")
          /\ installed' = (IF done THEN installed \cup {m} ELSE installed)
          /\ okNow' = (IF done THEN okNow \cup {m} ELSE okNow)
    /\ UNCHANGED <<loopVars, envVars, callVars, now, err, stream>>
    /\ UNCHANGED <<have, missing, idx, cyclePulls, okBefore, run>>

----------------------------------------------------------------------------
(* The environment *)

\* load.go 221: SIGINT or SIGTERM cancels the context.
Cancel ==
    /\ pc # "failed"
    /\ ~Exited
    /\ ~cancelled
    /\ cancelled' = TRUE
    /\ UNCHANGED <<loopVars, ensureVars, pullVars, callVars, required, removed>>
    /\ UNCHANGED <<now, err, pc, installed>>

\* Another process removes a model from the backend.
BackendRemove ==
    /\ ~Terminal
    /\ Cardinality(removed) < MaxExternal
    /\ \E m \in installed \ removed :
          /\ installed' = installed \ {m}
          /\ removed' = removed \cup {m}
    /\ UNCHANGED <<loopVars, ensureVars, pullVars, callVars, required, cancelled>>
    /\ UNCHANGED <<now, err, pc>>

----------------------------------------------------------------------------
(* Specifications *)

Next ==
    \/ CheckDeadline
    \/ Ping
    \/ AfterPing
    \/ ListModels
    \/ PullStart
    \/ PullDecode
    \/ AfterPull
    \/ AfterEnsure
    \/ MainReady
    \/ MainFatal
    \/ Cancel
    \/ BackendRemove

\* The readiness gate: waitUntilReady against an arbitrary backend.
Spec == Init /\ [][Next]_vars

\* One step of waitUntilReady's goroutine.
LoopStep ==
    \/ CheckDeadline
    \/ Ping
    \/ AfterPing
    \/ ListModels
    \/ PullStart
    \/ PullDecode
    \/ AfterPull
    \/ AfterEnsure

\* waitUntilReady starts against a backend that holds no model yet, so that
\* every required model has to be pulled; the models pulled in one iteration
\* are installed in the next.
InitLive ==
    /\ Init
    /\ installed = {}

\* The goroutine of waitUntilReady and the signal; no other process changes
\* the backend.
NextLive ==
    \/ LoopStep
    \/ Cancel

\* The readiness gate when every backend call returns and the goroutine of
\* waitUntilReady keeps running.
SpecLive == InitLive /\ [][NextLive]_vars /\ WF_vars(LoopStep)

\* ensureAll run twice in succession against the same backend: the second
\* call follows the return of the first.
InitEnsure ==
    /\ required \in RequiredLists
    /\ installed \in SUBSET Models
    /\ pc = "list"
    /\ run = 1
    /\ deadline = 0
    /\ now = 0
    /\ last = Nil
    /\ err = Nil
    /\ cancelled = FALSE
    /\ have = {}
    /\ missing = <<>>
    /\ idx = 0
    /\ stream = <<>>
    /\ pos = 0
    /\ pullErr = Nil
    /\ iter = 0
    /\ probeFails = 0
    /\ ensureFails = 0
    /\ checkedAt = 0
    /\ cyclePulls = <<>>
    /\ okBefore = {}
    /\ okNow = {}
    /\ removed = {}
    /\ lastFailed = "none"
    /\ queries = 0
    /\ answer = NoAnswer

EnsureAgain ==
    /\ pc = "ensured"
    /\ run = 1
    /\ run' = 2
    /\ pc' = "list"
    /\ ensureFails' = (IF err # Nil THEN ensureFails + 1 ELSE ensureFails)
    /\ err' = Nil
    /\ cyclePulls' = <<>>
    /\ okBefore' = okBefore \cup okNow
    /\ okNow' = {}
    /\ UNCHANGED <<deadline, last, iter, probeFails, checkedAt, lastFailed>>
    /\ answer' = NoAnswer
    /\ UNCHANGED <<have, missing, idx, pullVars, envVars, now, installed, queries>>

NextEnsure ==
    \/ ListModels
    \/ PullStart
    \/ PullDecode
    \/ AfterPull
    \/ EnsureAgain
    \/ Cancel
    \/ BackendRemove

SpecEnsure == InitEnsure /\ [][NextEnsure]_vars

\* pullModel alone, on every response body of up to MaxStreamLen records
\* that was accepted with a 2xx status.
InitPull ==
    /\ \E m \in Models :
          /\ required = <<m>>
          /\ missing = <<m>>
          /\ cyclePulls = <<m>>
    /\ stream \in Streams(MaxStreamLen)
    /\ pc = "decode"
    /\ installed = {}
    /\ run = 1
    /\ idx = 1
    /\ deadline = 0
    /\ now = 0
    /\ last = Nil
    /\ err = Nil
    /\ cancelled = FALSE
    /\ have = {}
    /\ pos = 0
    /\ pullErr = Nil
    /\ iter = 0
    /\ probeFails = 0
    /\ ensureFails = 0
    /\ checkedAt = 0
    /\ okBefore = {}
    /\ okNow = {}
    /\ removed = {}
    /\ lastFailed = "none"
    /\ queries = 0
    /\ answer = NoAnswer

NextPull == PullDecode

SpecPull == InitPull /\ [][NextPull]_vars

----------------------------------------------------------------------------
(* probe.go: the one-shot probe *)

\* The names a backend may hold in the probe's runs: the model identifiers
\* and one that differs from "a" only in case.
ProbeNames == Models \cup {"A"}

Lower(name) == IF name = "A" THEN "a" ELSE name

\* probe.go 55-74, listModels: the error it returns.
probeListModels(resp, body) ==
    IF resp.neterr # "" THEN <<resp.neterr>>
    ELSE IF resp.status >= 400 THEN <<"status", ToString(resp.status)>>
    ELSE IF body # "inventory" THEN <<"decode tags">>
    ELSE Nil

\* Mutant: names are compared without regard to case.
HasFold(inv, need) == Lower(need) \in {Lower(n) : n \in inv}

\* probe.go 110: _, ok := have[need].
Has(inv, need) == need \in inv

\* The probe's main has validated its environment and is about to query.
InitProbe ==
    /\ required \in RequiredLists
    /\ installed \in SUBSET ProbeNames
    /\ pc = "probe"
    /\ run = 0
    /\ deadline = 0
    /\ now = 0
    /\ last = Nil
    /\ err = Nil
    /\ cancelled = FALSE
    /\ have = {}
    /\ missing = <<>>
    /\ idx = 0
    /\ stream = <<>>
    /\ pos = 0
    /\ pullErr = Nil
    /\ iter = 0
    /\ probeFails = 0
    /\ ensureFails = 0
    /\ checkedAt = 0
    /\ cyclePulls = <<>>
    /\ okBefore = {}
    /\ okNow = {}
    /\ removed = {}
    /\ lastFailed = "none"
    /\ queries = 0
    /\ answer = NoAnswer

\* probe.go 102-108: the single inventory query; an error exits with 1.
ProbeQuery ==
    /\ pc = "probe"
    /\ \E resp \in Responses, body \in TagsBodies, d \in Durations :
          LET e == probeListModels(resp, body) IN
          /\ now' = now + d
          /\ answer' = Answer(resp, body, 0)
          /\ err' = e
          /\ have' = (IF e = Nil THEN Inventory(installed, have) ELSE have)
          /\ pc' = (IF e = Nil THEN "compare" ELSE "exit1")
    /\ queries' = queries + 1
    /\ UNCHANGED <<loopVars, pullVars, envVars, installed>>
    /\ UNCHANGED <<missing, idx, cyclePulls, okBefore, okNow, run>>

\* probe.go 109-115: the first required model that is not in the set exits
\* with 1; when none is missing main returns (exit 0).
ProbeCompare ==
    /\ pc = "compare"
    /\ missing' = SelectSeq(required, LAMBDA need : ~Has(have, need))
    /\ pc' = (IF missing' = <<>> THEN "exit0" ELSE "exit1")
    /\ UNCHANGED <<loopVars, pullVars, envVars, callVars, installed, now, err>>
    /\ UNCHANGED <<have, idx, cyclePulls, okBefore, okNow, run>>

NextProbe ==
    \/ ProbeQuery
    \/ ProbeCompare

SpecProbe == InitProbe /\ [][NextProbe]_vars

----------------------------------------------------------------------------
(* Properties *)

EnsureReturnedNil == pc = "ensured" /\ err = Nil

\* The entries of the required list that the cycle's snapshot lacks.
Absent == SelectSeq(required, LAMBDA r : r \notin have)

\* C1: when the first probe succeeds and the first inventory query returns a
\* set holding every required identifier, waitUntilReady has issued no pull,
\* is still in its first iteration and is returning (or has returned) ready.
C1_SatisfiedIsReadyWithoutPull ==
    (probeFails = 0 /\ run = 1 /\ Range(required) \subseteq have)
        => /\ iter = 1
           /\ cyclePulls = <<>>
           /\ EnsureReturnedNil \/ pc \in {"ready", "exit0"}

C1_Witness ==
    /\ pc = "ready"
    /\ probeFails = 0
    /\ run = 1
    /\ Len(required) = 2
    /\ required[1] # required[2]
    /\ Range(required) \subseteq have

\* C2 as stated: when ensureAll returns success it has issued exactly one
\* pull per model that is required and absent from the snapshot, in the
\* order of the required list, also when an identifier is listed twice.
C2_OnePullPerModel ==
    EnsureReturnedNil => cyclePulls = Dedup(Absent)

\* C2 amended: when ensureAll returns success it has issued exactly one pull
\* per entry of the required list whose model is absent from the snapshot,
\* in list order, so an absent identifier listed twice is pulled twice.
C2_OnePullPerEntry ==
    EnsureReturnedNil => cyclePulls = Absent

C2_Witness ==
    /\ EnsureReturnedNil
    /\ Len(cyclePulls) = 2
    /\ cyclePulls[1] = cyclePulls[2]
    /\ cyclePulls = required

\* The backend held every required model all along (nothing was pulled or
\* removed), was unreachable for the first probeFails probes and from then on
\* answered the probe and the inventory query; nobody cancelled.
UnreachableThenSatisfied ==
    /\ Terminal
    /\ Range(required) \subseteq installed
    /\ okBefore \cup okNow = {}
    /\ removed = {}
    /\ ensureFails = 0
    /\ ~cancelled

\* The startup limit: waitUntilReady is entered at time 0.
startupLimit == deadline

\* C3 as stated: after N >= 1 failed probes followed by a reachable, satisfied
\* backend, waitUntilReady returns ready when N backoff intervals fit within
\* startupLimit, and otherwise failed with the error of the last failed probe.
C3_BackoffsFit ==
    (UnreachableThenSatisfied /\ probeFails >= 1)
        => IF probeFails * Backoff <= startupLimit
           THEN pc = "ready"
           ELSE pc = "failed" /\ last = <<"ollama not responding">> \o err

\* C3 amended: in that scenario waitUntilReady returns ready exactly when the
\* clock at the deadline check that follows the N failed probes and their N
\* backoff pauses is not after the deadline (the probes take time too);
\* otherwise it returns failed, with the error of the last failed probe when
\* a probe ran and with the startup timeout error when none did.
C3_ElapsedFits ==
    UnreachableThenSatisfied
        => /\ pc = "ready" <=> checkedAt <= deadline
           /\ checkedAt >= probeFails * Backoff
           /\ pc = "failed" =>
                 last = (IF probeFails > 0
                         THEN <<"ollama not responding">> \o err
                         ELSE <<"startup timeout">>)

C3_Witness ==
    /\ pc = "ready"
    /\ UnreachableThenSatisfied
    /\ probeFails = 2
    /\ checkedAt = deadline

\* C4: once the context is cancelled the loop starts no further probe, no
\* ensure attempt and no backoff pause.
C4_CancelStopsLoop ==
    [][cancelled =>
          /\ ~(pc = "check" /\ pc' = "ping")
          /\ ~(pc = "pinged" /\ pc' = "list")
          /\ ~(pc \in {"pinged", "ensured"} /\ pc' = "check" /\ now' = now + Backoff)]_vars

\* C5: a failed waitUntilReady returns the startup timeout error exactly
\* when no attempt ran, and otherwise the error of the most recent failed
\* attempt, wrapped for the stage (probe or ensure) that failed last.
C5_FailedCarriesLatest ==
    pc = "failed"
        => /\ (iter = 0) <=> (last = <<"startup timeout">>)
           /\ iter > 0 =>
                 /\ lastFailed = "probe" => last = <<"ollama not responding">> \o err
                 /\ lastFailed = "ensure" => last = <<"ensure models">> \o err
                 /\ lastFailed # "none"

C5_Witness ==
    /\ pc = "failed"
    /\ probeFails >= 1
    /\ ensureFails >= 1
    /\ lastFailed = "ensure"
    /\ last = <<"ensure models", "pull", "b", "boom">>

\* pullModel has returned.
PullReturned == pc = "pulled"

\* A record that ends the call: it cannot be decoded, carries an error
\* message, or has status "success".
Ends(ev) == ev.bad # "" \/ ev.Error # "" \/ ev.Status = "success"

\* The records before the k-th are decoded and do not end the call.
FirstEnding(k) ==
    /\ k \in 1..Len(stream)
    /\ Ends(stream[k])
    /\ \A i \in 1..(k - 1) : ~Ends(stream[i])

IsSuccess(ev) == ev.bad = "" /\ ev.Error = "" /\ ev.Status = "success"

\* C6: when the first record that ends the call is a success record,
\* pullModel returns success having read exactly up to that record,
\* whatever the stream holds after it.
C6_SuccessEndsCall ==
    PullReturned =>
        \A k \in 1..Len(stream) :
            (FirstEnding(k) /\ IsSuccess(stream[k]))
                => (pullErr = Nil /\ pos = k)

C6_Witness ==
    /\ PullReturned
    /\ pullErr = Nil
    /\ pos = 2
    /\ Len(stream) = 3
    /\ stream[1].Status = "pulling"
    /\ stream[3].Error # ""

\* C7: when no record of the stream has status "success", pullModel returns
\* a failure; when in addition the decoder reaches the clean end of the
\* input (no record is malformed or carries an error), the failure is
\* "stream ended without success" and every record was read.
C7_NoSuccessIsFailure ==
    (PullReturned /\ \A i \in 1..Len(stream) : stream[i].Status # "success")
        => /\ pullErr # Nil
           /\ (\A i \in 1..Len(stream) : ~Ends(stream[i]))
                 => /\ pullErr = <<"pull", missing[idx], "stream ended without success">>
                    /\ pos = Len(stream)

C7_Witness ==
    /\ PullReturned
    /\ Len(stream) = 2
    /\ \A i \in 1..Len(stream) : stream[i].Status = "pulling" /\ stream[i].Error = ""
    /\ pullErr # Nil

\* C8: when a record with an error message is decoded before any success
\* record, pullModel fails at that record with that message, whatever status
\* the record carries and whatever follows it.
C8_ErrorEndsCall ==
    PullReturned =>
        \A k \in 1..Len(stream) :
            (FirstEnding(k) /\ stream[k].bad = "" /\ stream[k].Error # "")
                => (pullErr = <<"pull", missing[idx], stream[k].Error>> /\ pos = k)

C8_Witness ==
    /\ PullReturned
    /\ pos = 1
    /\ Len(stream) = 2
    /\ stream[1].Error # ""
    /\ stream[1].Status = "success"
    /\ IsSuccess(stream[2])
    /\ pullErr # Nil

\* C9: a second ensureAll run in succession issues no pull when nothing was
\* removed from the backend and either the first run returned success or
\* the backend held every required model from the start.
C9_SecondRunPullsNothing ==
    (/\ run = 2
     /\ removed = {}
     /\ \/ ensureFails = 0
        \/ (okBefore \cup okNow = {} /\ Range(required) \subseteq installed))
        => cyclePulls = <<>>

C9_Witness ==
    /\ run = 2
    /\ removed = {}
    /\ ensureFails = 0
    /\ EnsureReturnedNil
    /\ okBefore = {"a", "b"}
    /\ cyclePulls = <<>>

\* C10: every cycle pulls only models absent from the inventory it queried
\* itself, and a model whose pull succeeded in an earlier cycle is pulled
\* again only if somebody removed it from the backend.
C10_NoRepull ==
    /\ Range(cyclePulls) \cap have = {}
    /\ (Range(cyclePulls) \cap okBefore) \subseteq removed

C10_Witness ==
    /\ run = 2
    /\ ensureFails = 1
    /\ okBefore = {"a"}
    /\ required = <<"a", "b">>
    /\ cyclePulls = <<"b">>
    /\ removed = {}

\* The loop of waitUntilReady has returned (the process may have exited).
LoopOver == Terminal \/ Exited

\* C12: once waitUntilReady has returned ready or failed nothing of the loop
\* happens any more (no probe, inventory query, pull or backoff pause); after
\* ready the process only leaves, with status 0, when the context is
\* cancelled; after failed it only leaves with status 1.
C12_TerminalIsFinal ==
    [][LoopOver =>
          /\ UNCHANGED <<now, iter, run, queries, cyclePulls, probeFails,
                         ensureFails, last, err, answer, stream, pos, have>>
          /\ pc = "ready" => (pc' = "ready" \/ (cancelled /\ pc' = "exit0"))
          /\ pc = "failed" => pc' \in {"failed", "exit1"}
          /\ Exited => pc' = pc]_vars

C12_Witness ==
    /\ pc = "exit0"
    /\ cancelled
    /\ queries = 1

\* C11: the one-shot probe issues one inventory query and no pull, and it
\* exits with 0 exactly when the backend answered that query without a
\* transport error, with a status below 400 and a well-formed body, and every
\* required identifier is, letter for letter, in the backend's inventory.
C11_ProbeOnce ==
    /\ queries <= 1
    /\ cyclePulls = <<>>
    /\ Exited =>
          /\ queries = 1
          /\ pc = "exit0" <=>
                /\ answer.neterr = ""
                /\ answer.status < 400
                /\ answer.body = "inventory"
                /\ \A i \in 1..Len(required) : required[i] \in installed

C11_Witness ==
    /\ pc = "exit1"
    /\ err = Nil
    /\ required = <<"b", "a">>
    /\ installed = {"A", "b"}

\* C13: when ensureAll has returned an error, the loop's next step records
\* "ensure models: <error>", pauses for the backoff that a failed probe also
\* gets, and goes to the deadline check; a probe is only started from a
\* deadline check that passed, and ensureAll is only entered from a probe
\* that returned no error.
C13_EnsureFailureBacksOff ==
    [][/\ (pc = "ensured" /\ err # Nil /\ pc' # pc) =>
              /\ last' = <<"ensure models">> \o err
              /\ now' = now + Backoff
              /\ pc' = "check"
       /\ (pc = "pinged" /\ err # Nil /\ pc' # pc) =>
              /\ now' = now + Backoff
              /\ pc' = "check"
       /\ (pc' = "ping" /\ pc # "ping") => (pc = "check" /\ now <= deadline)
       /\ (pc' = "list" /\ pc # "list") => (pc = "pinged" /\ err = Nil)]_vars

C13_Witness ==
    /\ pc = "list"
    /\ ensureFails >= 1
    /\ lastFailed = "ensure"
    /\ iter = ensureFails + 1

\* ensureAll is past its inventory query and has not handed its result to
\* waitUntilReady yet.
InCycle == pc \in {"pull", "decode", "pulled", "ensured"}

\* C14: the pulls issued in one ensure cycle are a prefix of the entries of
\* the required list that the cycle's snapshot lacks, every pull before the
\* last one succeeded, and when ensureAll returns after at least one pull it
\* returns the result of the last pull; it returns nil only when the whole
\* list was pulled.
C14_PullsArePrefix ==
    InCycle =>
        /\ Len(cyclePulls) <= Len(Absent)
        /\ \A i \in 1..Len(cyclePulls) : cyclePulls[i] = Absent[i]
        /\ \A i \in 1..(Len(cyclePulls) - 1) : cyclePulls[i] \in okNow
        /\ (pc = "ensured" /\ cyclePulls # <<>>) =>
              /\ err = pullErr
              /\ err = Nil => cyclePulls = Absent

C14_Witness ==
    /\ pc = "ensured"
    /\ err # Nil
    /\ cyclePulls = <<"a">>
    /\ Absent = <<"a", "b">>

\* The backend answered the last call with a status below 400.
AnsweredBelow400 == answer.neterr = "" /\ answer.status < 400

\* C15: a probe succeeds exactly when the backend answered it with a status
\* below 400, whatever the body was; an inventory query answered with such a
\* status and a malformed body makes ensureAll fail with the decode error,
\* and the loop records it as "ensure models: ..." and counts no failed probe.
C15_ProbeIgnoresBody ==
    /\ [](pc = "pinged" => (err = Nil <=> AnsweredBelow400))
    /\ []((pc = "ensured" /\ AnsweredBelow400 /\ answer.body = "malformed")
             => err = <<"decode tags">>)
    /\ [][(pc = "ensured" /\ AnsweredBelow400 /\ answer.body = "malformed"
             /\ pc' # pc) =>
              /\ last' = <<"ensure models", "decode tags">>
              /\ probeFails' = probeFails
              /\ ensureFails' = ensureFails + 1
              /\ pc' = "check"]_vars

C15_Witness ==
    /\ pc = "check"
    /\ last = <<"ensure models", "decode tags">>
    /\ probeFails = 0
    /\ ensureFails = 1
    /\ queries = 1

\* C16: when the first record that ends the call is one that cannot be
\* decoded, pullModel returns the decode error having read nothing after that
\* record, and the model counts as not pulled, whatever follows the record.
C16_DecodeErrorEndsCall ==
    PullReturned =>
        \A k \in 1..Len(stream) :
            (FirstEnding(k) /\ stream[k].bad # "")
                => /\ pullErr = <<"pull", missing[idx], "decode", stream[k].bad>>
                   /\ pos = k
                   /\ missing[idx] \notin okNow

C16_Witness ==
    /\ PullReturned
    /\ pos = 1
    /\ Len(stream) = 2
    /\ stream[1].bad = "syntax"
    /\ IsSuccess(stream[2])
    /\ pullErr # Nil

\* The backend answered the pull request with a status outside 200..299.
PullWasRejected ==
    /\ pc = "pulled"
    /\ answer.body = "stream"
    /\ answer.neterr = ""
    /\ answer.status \div 100 # 2

\* C17: when the backend answers a pull request with a status outside
\* 200..299, pullModel returns an error that carries that status and the
\* first BodyLimit bytes of the body at most, and it has decoded no record of
\* the body, whatever records the body holds.
C17_RejectedPullFails ==
    PullWasRejected =>
        /\ pullErr = <<"pull", missing[idx], "failed: status",
                       ToString(answer.status),
                       ToString(IF answer.len <= BodyLimit
                                THEN answer.len ELSE BodyLimit)>>
        /\ pos = 0

C17_Witness ==
    /\ PullWasRejected
    /\ answer.status = 304
    /\ answer.len > BodyLimit
    /\ Len(stream) = 1
    /\ IsSuccess(stream[1])
    /\ pullErr # Nil
    /\ okNow = {}

\* C18: waitUntilReady eventually returns ready or failed, and the number of
\* iterations it starts is at most one more than the number of backoffs that
\* fit into the startup limit.
C18_LoopEnds ==
    /\ [](deadline >= 0 => iter <= (deadline \div Backoff) + 1)
    /\ [](deadline < 0 => iter = 0)
    /\ <>LoopOver

C18_Witness ==
    /\ pc = "failed"
    /\ deadline = MaxLimit
    /\ iter = (MaxLimit \div Backoff) + 1
    /\ now > deadline
    /\ probeFails >= 1
    /\ ensureFails >= 1

\* C19: when waitUntilReady returns ready, ensureAll returned nil in that
\* iteration, every required identifier is in the iteration's snapshot or was
\* pulled with success in the iteration, and the inventory was queried once
\* per call of ensureAll, so not again after the pulls; waitUntilReady
\* returns ready from nowhere else.
C19_ReadyFromSnapshot ==
    /\ [](pc = "ready" =>
            /\ err = Nil
            /\ Range(required) \subseteq (have \cup okNow)
            /\ \A i \in 1..Len(required) :
                  required[i] \notin have =>
                      \E j \in 1..Len(cyclePulls) : cyclePulls[j] = required[i]
            /\ queries = run)
    /\ [][(pc' = "ready" /\ pc # "ready") =>
             (pc = "ensured" /\ err = Nil /\ UNCHANGED <<have, okNow, queries>>)]_vars

C19_Witness ==
    /\ pc = "ready"
    /\ ~(Range(required) \subseteq installed)
    /\ okNow # {}
    /\ have # {}

\* C20: the deadline never changes; waitUntilReady returns failed only from
\* the deadline check at the top of an iteration, with the clock past the
\* deadline; the time of the last check changes only there; and once
\* ensureAll has returned nil the loop returns ready, wherever the clock is.
C20_DeadlineOnlyAtTop ==
    [][/\ deadline' = deadline
       /\ (pc' = "failed" /\ pc # "failed") => (pc = "check" /\ now > deadline)
       /\ checkedAt' # checkedAt => pc = "check"
       /\ (pc = "check" /\ pc' # pc) => checkedAt' = now
       /\ (pc = "ensured" /\ err = Nil /\ pc' # pc) => pc' = "ready"]_vars

C20_Witness ==
    /\ pc = "ready"
    /\ now > deadline
    /\ checkedAt <= deadline
    /\ cyclePulls # <<>>

====
